---- MODULE Spec2Model ----
(***************************************************************************)
(* Brazilian document (CPF / CNPJ) validation: the unified, mask-aware     *)
(* implementation of document_number.rs and the split implementation of    *)
(* br_document.rs / cpf.rs / cnpj.rs / lib.rs.                             *)
(*                                                                         *)
(* A string is a sequence of characters; a character is a one-element      *)
(* name: "0".."9", ".", "-", "/", "S", and two non-ASCII characters,       *)
(* "U+00E9" (a letter, two UTF-8 bytes) and "U+0663" (ARABIC-INDIC DIGIT   *)
(* THREE, two UTF-8 bytes, in Unicode class Nd).                           *)
(***************************************************************************)
EXTENDS Integers, Sequences, FiniteSets

VARIABLES input, validated, parsed, rendered, legacy

vars == <<input, validated, parsed, rendered, legacy>>

(***************************************************************************)
(* Characters                                                              *)
(***************************************************************************)
DigitChars == <<"0", "1", "2", "3", "4", "5", "6", "7", "8", "9">>

AsciiDigits == {DigitChars[i] : i \in 1..10}

NonAscii == {"U+00E9", "U+0663"}

Alphabet == AsciiDigits \cup {".", "-", "/", "S"} \cup NonAscii

\* Number of bytes of the UTF-8 encoding of one character.
utf8_len(c) == IF c \in NonAscii THEN 2 ELSE 1

RECURSIVE str_len(_)
\* str::len: the length of a string in bytes, not in characters.
str_len(s) == IF s = <<>> THEN 0 ELSE utf8_len(Head(s)) + str_len(Tail(s))

\* char::to_digit(10): Some(value) for '0'..'9' only, None otherwise.
\* Some(v) is <<v>>, None is <<>>.
to_digit(c) ==
    IF c \in AsciiDigits
    THEN <<(CHOOSE i \in 1..10 : DigitChars[i] = c) - 1>>
    ELSE <<>>

\* char::from_digit(n, 10): Some(char) for n < 10, None otherwise.
from_digit(n) == IF n < 10 THEN <<DigitChars[n + 1]>> ELSE <<>>

\* The regex class \d, which is Unicode-aware: every character of class Nd.
regex_digit(c) == c \in AsciiDigits \/ c = "U+0663"

(***************************************************************************)
(* Constants of document_number.rs                                         *)
(***************************************************************************)
\* ^\d{3}[.]\d{3}[.]\d{3}[-]\d{2}$ : one token per character consumed.
CPF_MASK ==
    <<"\\d", "\\d", "\\d", ".", "\\d", "\\d", "\\d", ".",
      "\\d", "\\d", "\\d", "-", "\\d", "\\d">>

\* ^\d{2}[.]\d{3}[.]\d{3}[\/]\d{4}[-]\d{2}$
CNPJ_MASK ==
    <<"\\d", "\\d", ".", "\\d", "\\d", "\\d", ".", "\\d", "\\d", "\\d", "/",
      "\\d", "\\d", "\\d", "\\d", "-", "\\d", "\\d">>

CNPJ_POSITIONAL_WEIGHTS == <<6, 5, 4, 3, 2, 9, 8, 7, 6, 5, 4, 3, 2>>

SANITIZED_CPF_SIZE == 11

FORMATTED_CPF_AND_SANITIZED_CNPJ_SIZE == 14

FORMATTED_CNPJ_SIZE == 18

\* Mutant of is_match: a separator position accepts any separator.
is_match_any_separator(mask, s) ==
    /\ Len(s) = Len(mask)
    /\ \A i \in 1..Len(mask) :
          IF mask[i] = "\\d" THEN regex_digit(s[i]) ELSE s[i] \in {".", "-", "/"}

\* Regex::is_match for a pattern anchored at both ends whose tokens each
\* consume exactly one character.
is_match(mask, s) ==
    /\ Len(s) = Len(mask)
    /\ \A i \in 1..Len(mask) :
          IF mask[i] = "\\d" THEN regex_digit(s[i]) ELSE s[i] = mask[i]

(***************************************************************************)
(* Results.  Result<Vec<u32>, ErrorKind> and Result<(), ErrorKind> are     *)
(* records; an out-of-bounds index or slice, or an unwrap of None, is the  *)
(* outcome Panicked.                                                       *)
(***************************************************************************)
ErrorKind == {"InvalidCharacters", "InvalidDocument", "InvalidInput"}

Ok(n) == [tag |-> "Ok", kind |-> "", n |-> n]

Err(k) == [tag |-> "Err", kind |-> k, n |-> <<>>]

Panicked == [tag |-> "Panic", kind |-> "", n |-> <<>>]

NotCalled == [tag |-> "NotCalled", kind |-> "", n |-> <<>>]

\* Result::map(|_| v)
map_to(r, v) == IF r.tag = "Ok" THEN Ok(v) ELSE r

(***************************************************************************)
(* Digit extraction                                                        *)
(***************************************************************************)
RECURSIVE to_integer_vector_sanitizing(_)
\* chars().filter_map(|c| c.to_digit(10)): every digit, non-digits skipped.
to_integer_vector_sanitizing(s) ==
    IF s = <<>> THEN <<>>
    ELSE to_digit(Head(s)) \o to_integer_vector_sanitizing(Tail(s))

RECURSIVE to_integer_vector(_)
\* chars().map_while(|c| c.to_digit(10)): the digits up to the first non-digit.
to_integer_vector(s) ==
    IF s = <<>> THEN <<>>
    ELSE IF to_digit(Head(s)) = <<>> THEN <<>>
    ELSE to_digit(Head(s)) \o to_integer_vector(Tail(s))

RECURSIVE numbers_to_string_panics(_)
\* from_digit(..).unwrap() aborts on a value that is no decimal digit.
numbers_to_string_panics(n) ==
    IF n = <<>> THEN FALSE
    ELSE from_digit(Head(n)) = <<>> \/ numbers_to_string_panics(Tail(n))

RECURSIVE numbers_to_string(_)
numbers_to_string(n) ==
    IF n = <<>> THEN <<>>
    ELSE from_digit(Head(n)) \o numbers_to_string(Tail(n))

(***************************************************************************)
(* Uniformity and checksums                                                *)
(***************************************************************************)
check_digits(actual_first_digit, actual_second_digit, expected_first_digit, expected_second_digit) ==
    /\ actual_first_digit = expected_first_digit
    /\ actual_second_digit = expected_second_digit

\* n[0] and n[1..] are out of bounds on an empty vector.
all_equal_panics(n) == Len(n) < 1

RECURSIVE try_fold_equal(_, _, _)
\* try_fold over n[i..] with accumulator prev: Some(last) or None.
try_fold_equal(n, i, prev) ==
    IF i > Len(n) THEN <<prev>>
    ELSE IF prev = n[i] THEN try_fold_equal(n, i + 1, n[i])
    ELSE <<>>

all_equal(n) == try_fold_equal(n, 2, n[1]) # <<>>

\* digit_calculation: (sum, weight) -> (sum + weight * curr, weight - 1)
digit_calculation(t, curr) == <<t[1] + t[2] * curr, t[2] - 1>>

\* weight - 1 on a u32 weight of 0 overflows.
digit_calculation_overflows(t) == t[2] = 0

\* Mutant of ten_to_zero: the remainder 10 is kept.
ten_to_zero_identity(n) == n

ten_to_zero(n) == IF n = 10 THEN 0 ELSE n

RECURSIVE fold_digit_calculation(_, _)
\* iter().fold(t, digit_calculation)
fold_digit_calculation(s, t) ==
    IF s = <<>> THEN t
    ELSE fold_digit_calculation(Tail(s), digit_calculation(t, Head(s)))

RECURSIVE fold_overflows(_, _)
fold_overflows(s, t) ==
    IF s = <<>> THEN FALSE
    ELSE \/ digit_calculation_overflows(t)
         \/ fold_overflows(Tail(s), digit_calculation(t, Head(s)))

\* numbers[..9] needs nine elements; the folds must not take a weight below 0.
validate_cpf_panics(numbers) ==
    \/ Len(numbers) < 9
    \/ fold_overflows(SubSeq(numbers, 1, 9), <<0, 10>>)
    \/ fold_overflows(SubSeq(numbers, 1, 9), <<0, 11>>)

validate_cpf(numbers) ==
    LET first_nine_digits == SubSeq(numbers, 1, 9)
        first_digit ==
            ten_to_zero((fold_digit_calculation(first_nine_digits, <<0, 10>>)[1] * 10) % 11)
        t == fold_digit_calculation(first_nine_digits, <<0, 11>>)
        second_digit == ten_to_zero(((t[1] + first_digit * t[2]) * 10) % 11)
    IN  IF check_digits(numbers[Len(numbers) - 1], numbers[Len(numbers)],
                        first_digit, second_digit)
        THEN Ok(<<>>)
        ELSE Err("InvalidDocument")

\* Mutant of calculate_digit: the remainder 2 is mapped to 0 as well.
calculate_digit_below_three(subject) ==
    LET r == subject % 11 IN IF r <= 2 THEN 0 ELSE 11 - r

calculate_digit(subject) ==
    LET r == subject % 11 IN IF r < 2 THEN 0 ELSE 11 - r

RECURSIVE zip_product_sum(_, _)
\* a.iter().zip(w).map(|t| t.0 * t.1).sum(): zip stops at the shorter side.
zip_product_sum(a, w) ==
    IF a = <<>> \/ w = <<>> THEN 0
    ELSE Head(a) * Head(w) + zip_product_sum(Tail(a), Tail(w))

\* numbers[..12] needs twelve elements.
validate_cnpj_panics(numbers) == Len(numbers) < 12

validate_cnpj(numbers) ==
    LET first_twelve_digits == SubSeq(numbers, 1, 12)
        first_zipped_sum ==
            zip_product_sum(first_twelve_digits, Tail(CNPJ_POSITIONAL_WEIGHTS))
        first_digit == calculate_digit(first_zipped_sum)
        second_zipped_sum ==
            zip_product_sum(first_twelve_digits \o <<first_digit>>,
                            CNPJ_POSITIONAL_WEIGHTS)
        second_digit == calculate_digit(second_zipped_sum)
    IN  IF check_digits(numbers[Len(numbers) - 1], numbers[Len(numbers)],
                        first_digit, second_digit)
        THEN Ok(<<>>)
        ELSE Err("InvalidDocument")

(***************************************************************************)
(* DocumentNumber::evaluate, one definition per arm of the length match    *)
(***************************************************************************)
\* Mutant of evaluate_sanitized_cpf: the uniformity check runs before the
\* check of the number of digits extracted.
evaluate_sanitized_cpf_uniformity_first(s) ==
    LET n == to_integer_vector(s) IN
    IF all_equal_panics(n) THEN Panicked
    ELSE IF ~all_equal(n) /\ Len(n) = SANITIZED_CPF_SIZE
         THEN IF validate_cpf_panics(n) THEN Panicked
              ELSE map_to(validate_cpf(n), n)
    ELSE IF Len(n) # SANITIZED_CPF_SIZE THEN Err("InvalidCharacters")
    ELSE Err("InvalidDocument")

\* Length 11: strict extraction, then uniformity, then the CPF checksum.
evaluate_sanitized_cpf(s) ==
    LET n == to_integer_vector(s) IN
    IF Len(n) = SANITIZED_CPF_SIZE
    THEN IF all_equal_panics(n) THEN Panicked
         ELSE IF ~all_equal(n)
              THEN IF validate_cpf_panics(n) THEN Panicked
                   ELSE map_to(validate_cpf(n), n)
              ELSE Err("InvalidDocument")
    ELSE Err("InvalidCharacters")

\* Mutant of evaluate_formatted_cpf: the uniformity check is left out.
evaluate_formatted_cpf_without_uniformity(s) ==
    LET n == to_integer_vector_sanitizing(s) IN
    IF validate_cpf_panics(n) THEN Panicked
    ELSE map_to(validate_cpf(n), n)

\* Length 14, CPF mask matched: mask-stripping extraction, uniformity, CPF.
evaluate_formatted_cpf(s) ==
    LET n == to_integer_vector_sanitizing(s) IN
    IF all_equal_panics(n) THEN Panicked
    ELSE IF ~all_equal(n)
         THEN IF validate_cpf_panics(n) THEN Panicked
              ELSE map_to(validate_cpf(n), n)
         ELSE Err("InvalidDocument")

\* Length 14, CPF mask not matched: strict extraction, then the CNPJ checksum.
evaluate_sanitized_cnpj(s) ==
    LET n == to_integer_vector(s) IN
    IF Len(n) = FORMATTED_CPF_AND_SANITIZED_CNPJ_SIZE
    THEN IF validate_cnpj_panics(n) THEN Panicked
         ELSE map_to(validate_cnpj(n), n)
    ELSE Err("InvalidCharacters")

\* Length 18: the CNPJ mask, mask-stripping extraction, the CNPJ checksum.
evaluate_formatted_cnpj(s) ==
    IF is_match(CNPJ_MASK, s)
    THEN LET n == to_integer_vector_sanitizing(s) IN
         IF Len(n) = FORMATTED_CPF_AND_SANITIZED_CNPJ_SIZE
         THEN IF validate_cnpj_panics(n) THEN Panicked
              ELSE map_to(validate_cnpj(n), n)
         ELSE Err("InvalidCharacters")
    ELSE Err("InvalidCharacters")

\* Mutant of evaluate: the length is counted in characters, not in bytes.
evaluate_counting_chars(s) ==
    LET len == Len(s) IN
    IF len = SANITIZED_CPF_SIZE THEN evaluate_sanitized_cpf(s)
    ELSE IF len = FORMATTED_CPF_AND_SANITIZED_CNPJ_SIZE
         THEN IF is_match(CPF_MASK, s)
              THEN evaluate_formatted_cpf(s)
              ELSE evaluate_sanitized_cnpj(s)
    ELSE IF len = FORMATTED_CNPJ_SIZE THEN evaluate_formatted_cnpj(s)
    ELSE Err("InvalidInput")

evaluate(s) ==
    LET len == str_len(s) IN
    IF len = SANITIZED_CPF_SIZE THEN evaluate_sanitized_cpf(s)
    ELSE IF len = FORMATTED_CPF_AND_SANITIZED_CNPJ_SIZE
         THEN IF is_match(CPF_MASK, s)
              THEN evaluate_formatted_cpf(s)
              ELSE evaluate_sanitized_cnpj(s)
    ELSE IF len = FORMATTED_CNPJ_SIZE THEN evaluate_formatted_cnpj(s)
    ELSE Err("InvalidInput")

\* DocumentNumber::validate
validate(s) == map_to(evaluate(s), <<>>)

\* A parsed document: the variant and the string it wraps.
Doc(variant, text) ==
    [tag |-> "Ok", kind |-> "", variant |-> variant, text |-> text]

\* Mutant of parse: the document wraps the input string as given.
parse_wrapping_input(s) ==
    LET r == evaluate(s) IN
    IF r.tag # "Ok" THEN r
    ELSE IF Len(r.n) = SANITIZED_CPF_SIZE
         THEN Doc("CPF", s)
         ELSE Doc("CNPJ", s)

\* Mutant of parse: the variant is chosen by the length of the input.
parse_by_input_length(s) ==
    LET r == evaluate(s) IN
    IF r.tag # "Ok" THEN r
    ELSE IF numbers_to_string_panics(r.n) THEN Panicked
    ELSE IF str_len(s) = SANITIZED_CPF_SIZE
         THEN Doc("CPF", numbers_to_string(r.n))
         ELSE Doc("CNPJ", numbers_to_string(r.n))

\* DocumentNumber::parse
parse(s) ==
    LET r == evaluate(s) IN
    IF r.tag # "Ok" THEN r
    ELSE IF numbers_to_string_panics(r.n) THEN Panicked
    ELSE IF Len(r.n) = SANITIZED_CPF_SIZE
         THEN Doc("CPF", numbers_to_string(r.n))
         ELSE Doc("CNPJ", numbers_to_string(r.n))

\* Display for DocumentNumber, CPFDocument and CNPJDocument: the wrapped text.
to_string(doc) == doc.text

(***************************************************************************)
(* The split implementation: lib.rs, cpf.rs, cnpj.rs, br_document.rs.      *)
(* Option<ErrorKind> is <<>> for None and <<kind>> for Some(kind).         *)
(***************************************************************************)
CPF_SIZE == 11

CNPJ_SIZE == 14

cnpj_CNPJ_POSITIONAL_WEIGHTS == <<6, 5, 4, 3, 2, 9, 8, 7, 6, 5, 4, 3, 2>>

RECURSIVE lib_to_integer_vector(_)
lib_to_integer_vector(s) ==
    IF s = <<>> THEN <<>>
    ELSE IF to_digit(Head(s)) = <<>> THEN <<>>
    ELSE to_digit(Head(s)) \o lib_to_integer_vector(Tail(s))

RECURSIVE lib_try_fold_equal(_, _, _)
lib_try_fold_equal(n, i, prev) ==
    IF i > Len(n) THEN <<prev>>
    ELSE IF prev = n[i] THEN lib_try_fold_equal(n, i + 1, n[i])
    ELSE <<>>

lib_all_equal(n) == lib_try_fold_equal(n, 2, n[1]) # <<>>

cpf_digit_calculation(t, curr) == <<t[1] + t[2] * curr, t[2] - 1>>

cpf_ten_to_zero(n) == IF n = 10 THEN 0 ELSE n

RECURSIVE cpf_fold_digit_calculation(_, _)
cpf_fold_digit_calculation(s, t) ==
    IF s = <<>> THEN t
    ELSE cpf_fold_digit_calculation(Tail(s), cpf_digit_calculation(t, Head(s)))

cpf_validate_cpf(numbers) ==
    LET first_nine_digits == SubSeq(numbers, 1, 9)
        first_digit ==
            cpf_ten_to_zero(
                (cpf_fold_digit_calculation(first_nine_digits, <<0, 10>>)[1] * 10) % 11)
        t == cpf_fold_digit_calculation(first_nine_digits, <<0, 11>>)
        second_digit == cpf_ten_to_zero(((t[1] + first_digit * t[2]) * 10) % 11)
    IN  IF /\ numbers[Len(numbers) - 1] = first_digit
           /\ numbers[Len(numbers)] = second_digit
        THEN <<>>
        ELSE <<"InvalidDocument">>

CPFDocument_validate_input(s) ==
    IF str_len(s) # CPF_SIZE THEN <<"InvalidInput">>
    ELSE LET input_as_integer_vector == lib_to_integer_vector(s) IN
         IF Len(input_as_integer_vector) # CPF_SIZE THEN <<"InvalidCharacters">>
         ELSE IF lib_all_equal(input_as_integer_vector) THEN <<"InvalidDocument">>
         ELSE cpf_validate_cpf(input_as_integer_vector)

cnpj_calculate_digit(subject) ==
    LET r == subject % 11 IN IF r < 2 THEN 0 ELSE 11 - r

RECURSIVE cnpj_zip_product_sum(_, _)
cnpj_zip_product_sum(a, w) ==
    IF a = <<>> \/ w = <<>> THEN 0
    ELSE Head(a) * Head(w) + cnpj_zip_product_sum(Tail(a), Tail(w))

cnpj_validate_cnpj(numbers) ==
    LET first_twelve_digits == SubSeq(numbers, 1, 12)
        first_zipped_sum ==
            cnpj_zip_product_sum(first_twelve_digits, Tail(cnpj_CNPJ_POSITIONAL_WEIGHTS))
        first_digit == cnpj_calculate_digit(first_zipped_sum)
        second_zipped_sum ==
            cnpj_zip_product_sum(first_twelve_digits \o <<first_digit>>,
                                 cnpj_CNPJ_POSITIONAL_WEIGHTS)
        second_digit == cnpj_calculate_digit(second_zipped_sum)
    IN  IF /\ numbers[Len(numbers) - 1] = first_digit
           /\ numbers[Len(numbers)] = second_digit
        THEN <<>>
        ELSE <<"InvalidDocument">>

CNPJDocument_validate_input(s) ==
    IF str_len(s) # CNPJ_SIZE THEN <<"InvalidInput">>
    ELSE LET input_as_integer_vector == lib_to_integer_vector(s) IN
         IF Len(input_as_integer_vector) # CNPJ_SIZE THEN <<"InvalidCharacters">>
         ELSE IF lib_all_equal(input_as_integer_vector) THEN <<"InvalidDocument">>
         ELSE cnpj_validate_cnpj(input_as_integer_vector)

\* br_document.rs DocumentNumber::validate_input: CPF first, CNPJ when the
\* CPF validator rejects the length.
DocumentNumber_validate_input(s) ==
    LET error == CPFDocument_validate_input(s) IN
    IF error # <<>>
    THEN IF error = <<"InvalidInput">> THEN CNPJDocument_validate_input(s)
         ELSE error
    ELSE <<>>

(***************************************************************************)
(* Inputs                                                                  *)
(***************************************************************************)
\* Number of seed payloads of each family whose digits are varied.
NumSeeds == 2

\* A payload digit is varied by adding 0..MaxDelta modulo 10.
MaxDelta == 2

\* Longest uniform or digit-only string of arbitrary length.
MaxLen == 19

\* The nine payload digits of the CPF numbers of the test tables.
CpfSeeds ==
    << <<9, 6, 8, 6, 5, 0, 9, 0, 0>>,
       <<2, 8, 8, 1, 1, 1, 2, 1, 0>>,
       <<7, 9, 8, 8, 8, 2, 4, 5, 1>> >>

\* The twelve payload digits of the CNPJ numbers of the test tables.
CnpjSeeds ==
    << <<0, 3, 1, 6, 5, 6, 8, 5, 0, 0, 0, 1>>,
       <<8, 9, 6, 5, 4, 9, 2, 2, 0, 0, 0, 1>>,
       <<7, 3, 3, 6, 1, 9, 0, 7, 0, 0, 0, 1>> >>

SeedIndex == 1..(IF NumSeeds < 3 THEN NumSeeds ELSE 3)

\* The string that writes a sequence of digit values.
Chars(ds) == [i \in 1..Len(ds) |-> DigitChars[ds[i] + 1]]

Vary(seed, p, delta) == [seed EXCEPT ![p] = (@ + delta) % 10]

Uniform(c, len) == [i \in 1..len |-> c]

Cyclic(seq, len) == [i \in 1..len |-> seq[((i - 1) % Len(seq)) + 1]]

\* ###.###.###-##
FormatCpf(c) ==
    SubSeq(c, 1, 3) \o <<".">> \o SubSeq(c, 4, 6) \o <<".">>
        \o SubSeq(c, 7, 9) \o <<"-">> \o SubSeq(c, 10, 11)

\* ##.###.###/####-##
FormatCnpj(c) ==
    SubSeq(c, 1, 2) \o <<".">> \o SubSeq(c, 3, 5) \o <<".">> \o SubSeq(c, 6, 8)
        \o <<"/">> \o SubSeq(c, 9, 12) \o <<"-">> \o SubSeq(c, 13, 14)

\* Every seed with one payload digit varied and every pair of check digits.
CpfNumbers ==
    {Vary(CpfSeeds[k], p, dl) \o <<a, b>> :
        k \in SeedIndex, p \in 1..9, dl \in 0..MaxDelta, a \in 0..9, b \in 0..9}

CnpjNumbers ==
    {Vary(CnpjSeeds[k], p, dl) \o <<a, b>> :
        k \in SeedIndex, p \in 1..12, dl \in 0..MaxDelta, a \in 0..9, b \in 0..9}

SanitizedInputs == {Chars(x) : x \in CpfNumbers \cup CnpjNumbers}

\* Every seed under its mask, with every pair of check digits.
FormattedInputs ==
    {FormatCpf(Chars(CpfSeeds[k] \o <<a, b>>)) : k \in SeedIndex, a \in 0..9, b \in 0..9}
    \cup
    {FormatCnpj(Chars(CnpjSeeds[k] \o <<a, b>>)) : k \in SeedIndex, a \in 0..9, b \in 0..9}

\* All-identical digits, sanitized and formatted.
UniformInputs ==
    UNION {{Uniform(c, 11), Uniform(c, 14),
            FormatCpf(Uniform(c, 11)), FormatCnpj(Uniform(c, 14))} : c \in AsciiDigits}

\* Well-formed strings that are then damaged by one or two edits.
Bases ==
    LET cpf == {Chars(<<9, 6, 8, 6, 5, 0, 9, 0, 0, 3, 9>>), Uniform("1", 11),
                Chars(<<7, 9, 8, 8, 8, 2, 4, 5, 1, 3, 1>>)}
        cnpj == {Chars(<<0, 3, 1, 6, 5, 6, 8, 5, 0, 0, 0, 1, 1, 4>>), Uniform("0", 14)}
    IN  cpf \cup cnpj \cup {FormatCpf(c) : c \in cpf} \cup {FormatCnpj(c) : c \in cnpj}

EditChars == {"5", ".", "-", "/", "S", "U+00E9", "U+0663"}

Replace(s, p, c) == [s EXCEPT ![p] = c]

Delete(s, p) == SubSeq(s, 1, p - 1) \o SubSeq(s, p + 1, Len(s))

Insert(s, p, c) == SubSeq(s, 1, p - 1) \o <<c>> \o SubSeq(s, p, Len(s))

EditedInputs ==
    UNION {
        {Replace(s, p, c) : p \in 1..Len(s), c \in EditChars}
        \cup {Delete(s, p) : p \in 1..Len(s)}
        \cup {Insert(s, p, c) : p \in 1..(Len(s) + 1), c \in EditChars}
        \cup {Delete(Replace(s, p, c), q) : p \in 2..(Len(s) - 1), c \in NonAscii, q \in {1, Len(s)}}
        : s \in Bases}

\* Strings of every length from 0 to MaxLen: one character repeated, and
\* digit-only strings that begin with a valid CPF or a valid CNPJ.
ArbitraryLengthInputs ==
    {Uniform(c, k) : c \in Alphabet, k \in 0..MaxLen}
    \cup {Cyclic(Chars(<<9, 6, 8, 6, 5, 0, 9, 0, 0, 3, 9>>), k) : k \in 0..MaxLen}
    \cup {Cyclic(Chars(<<0, 3, 1, 6, 5, 6, 8, 5, 0, 0, 0, 1, 1, 4>>), k) : k \in 0..MaxLen}

Inputs ==
    SanitizedInputs \cup FormattedInputs \cup UniformInputs
        \cup EditedInputs \cup ArbitraryLengthInputs

(***************************************************************************)
(* The state machine: a caller holds one input string and may call each    *)
(* entry point on it, in any order.                                        *)
(***************************************************************************)
NotRendered == <<"not rendered">>

NotChecked == <<"not checked">>

Init ==
    /\ input \in Inputs
    /\ validated = NotCalled
    /\ parsed = NotCalled
    /\ rendered = NotRendered
    /\ legacy = NotChecked

\* DocumentNumber::validate(&input)
Validate ==
    /\ validated = NotCalled
    /\ validated' = validate(input)
    /\ UNCHANGED <<input, parsed, rendered, legacy>>

\* DocumentNumber::parse(input)
Parse ==
    /\ parsed = NotCalled
    /\ parsed' = parse(input)
    /\ UNCHANGED <<input, validated, rendered, legacy>>

\* doc.to_string() on the document parse returned
Display ==
    /\ parsed.tag = "Ok"
    /\ rendered = NotRendered
    /\ rendered' = to_string(parsed)
    /\ UNCHANGED <<input, validated, parsed, legacy>>

\* br_document::DocumentNumber::validate_input(&input)
ValidateInput ==
    /\ legacy = NotChecked
    /\ legacy' = DocumentNumber_validate_input(input)
    /\ UNCHANGED <<input, validated, parsed, rendered>>

Next == Validate \/ Parse \/ Display \/ ValidateInput

Spec == Init /\ [][Next]_vars

(***************************************************************************)
(* The calls DocumentNumber::evaluate makes on an input, as pairs          *)
(* <<callee, argument>>, in the order of the arms of evaluate.             *)
(***************************************************************************)
evaluate_calls(s) ==
    LET len == str_len(s)
        strict == to_integer_vector(s)
        stripped == to_integer_vector_sanitizing(s)
    IN  IF len = SANITIZED_CPF_SIZE
        THEN IF Len(strict) = SANITIZED_CPF_SIZE
             THEN {<<"all_equal", strict>>}
                  \cup (IF ~all_equal_panics(strict) /\ ~all_equal(strict)
                        THEN {<<"validate_cpf", strict>>} ELSE {})
             ELSE {}
        ELSE IF len = FORMATTED_CPF_AND_SANITIZED_CNPJ_SIZE
        THEN IF is_match(CPF_MASK, s)
             THEN {<<"all_equal", stripped>>}
                  \cup (IF ~all_equal_panics(stripped) /\ ~all_equal(stripped)
                        THEN {<<"validate_cpf", stripped>>} ELSE {})
             ELSE IF Len(strict) = FORMATTED_CPF_AND_SANITIZED_CNPJ_SIZE
                  THEN {<<"validate_cnpj", strict>>}
                  ELSE {}
        ELSE IF len = FORMATTED_CNPJ_SIZE
        THEN IF /\ is_match(CNPJ_MASK, s)
                /\ Len(stripped) = FORMATTED_CPF_AND_SANITIZED_CNPJ_SIZE
             THEN {<<"validate_cnpj", stripped>>}
             ELSE {}
        ELSE {}

(***************************************************************************)
(* Vocabulary of the properties, stated without the operators above        *)
(***************************************************************************)
IsDigitString(s) == \A i \in 1..Len(s) : s[i] \in AsciiDigits

DigitValue(c) == CHOOSE v \in 0..9 : DigitChars[v + 1] = c

\* The digit values of a digit string, indexed from 0 as d0, d1, ...
DigitsOf(s) == [i \in 0..(Len(s) - 1) |-> DigitValue(s[i + 1])]

AllIdentical(s) == \A i, j \in 1..Len(s) : s[i] = s[j]

\* The digits of a string in their order, everything else removed.
DigitProjection(s) == SelectSeq(s, LAMBDA c : c \in AsciiDigits)

MatchesCpfMask(s) ==
    /\ Len(s) = 14
    /\ \A i \in 1..14 :
          IF i \in {4, 8} THEN s[i] = "."
          ELSE IF i = 12 THEN s[i] = "-"
          ELSE s[i] \in AsciiDigits

MatchesCnpjMask(s) ==
    /\ Len(s) = 18
    /\ \A i \in 1..18 :
          IF i \in {3, 7} THEN s[i] = "."
          ELSE IF i = 11 THEN s[i] = "/"
          ELSE IF i = 16 THEN s[i] = "-"
          ELSE s[i] \in AsciiDigits

IsUniformDocument(s) ==
    /\ \/ (IsDigitString(s) /\ Len(s) \in {11, 14})
       \/ MatchesCpfMask(s)
       \/ MatchesCnpjMask(s)
    /\ AllIdentical(DigitProjection(s))

RECURSIVE SumOver(_, _, _)
\* The sum of f[i] for i in lo..hi.
SumOver(f, lo, hi) == IF lo > hi THEN 0 ELSE f[lo] + SumOver(f, lo + 1, hi)

Mod11Times10(x) == LET r == (x * 10) % 11 IN IF r = 10 THEN 0 ELSE r

CpfC1(d) == Mod11Times10(SumOver([i \in 0..8 |-> (10 - i) * d[i]], 0, 8))

CpfC2(d) ==
    Mod11Times10(SumOver([i \in 0..8 |-> (11 - i) * d[i]], 0, 8) + 2 * CpfC1(d))

CnpjRule(x) == IF x % 11 < 2 THEN 0 ELSE 11 - (x % 11)

CnpjW1 == [i \in 0..11 |-> <<5, 4, 3, 2, 9, 8, 7, 6, 5, 4, 3, 2>>[i + 1]]

CnpjW2 == [i \in 0..12 |-> <<6, 5, 4, 3, 2, 9, 8, 7, 6, 5, 4, 3, 2>>[i + 1]]

CnpjC1(d) == CnpjRule(SumOver([i \in 0..11 |-> CnpjW1[i] * d[i]], 0, 11))

CnpjC2(d) ==
    CnpjRule(SumOver([i \in 0..11 |-> CnpjW2[i] * d[i]], 0, 11) + CnpjW2[12] * CnpjC1(d))

Validated == validated # NotCalled

Parsed == parsed # NotCalled

(***************************************************************************)
(* C1                                                                      *)
(***************************************************************************)
\* C1: on every all-identical-digit input of valid length (11 or 14 copies
\* of a digit, or the same under the CPF or CNPJ mask) validate returns
\* Err(InvalidDocument) and parse does not return Ok.
C1_UniformIsInvalidDocument ==
    IsUniformDocument(input) =>
        /\ Validated => validated = Err("InvalidDocument")
        /\ Parsed => parsed.tag # "Ok"

(***************************************************************************)
(* C2                                                                      *)
(***************************************************************************)
\* C2: validate returns Err(InvalidInput) if and only if the length of the
\* input (str::len, in bytes) is not 11, 14 or 18, whatever its characters.
C2_InvalidInputIffLength ==
    Validated =>
        ((validated = Err("InvalidInput")) <=> (str_len(input) \notin {11, 14, 18}))

C2_Witness ==
    /\ validated = Err("InvalidInput")
    /\ Len(input) = 14
    /\ str_len(input) = 15
    /\ \E i \in 1..Len(input) : input[i] \in {".", "-"}

(***************************************************************************)
(* C3                                                                      *)
(***************************************************************************)
C3_BadCharacters(s) ==
    \/ str_len(s) = 11 /\ ~IsDigitString(s)
    \/ str_len(s) = 14 /\ ~MatchesCpfMask(s) /\ ~(IsDigitString(s) /\ Len(s) = 14)
    \/ str_len(s) = 18 /\ ~MatchesCnpjMask(s)

\* C3: on an input of length 11, 14 or 18, validate returns
\* Err(InvalidCharacters) if and only if a character or the mask is wrong
\* (length 11 with a non-digit; length 14 neither the CPF mask nor 14
\* digits; length 18 not the CNPJ mask), and then InvalidDocument is never
\* reported, whatever the digits present.
C3_CharactersBeforeChecksum ==
    (Validated /\ str_len(input) \in {11, 14, 18}) =>
        /\ (validated = Err("InvalidCharacters")) <=> C3_BadCharacters(input)
        /\ C3_BadCharacters(input) => validated # Err("InvalidDocument")

C3_Witness ==
    /\ validated = Err("InvalidCharacters")
    /\ str_len(input) = 14
    /\ Len(DigitProjection(input)) = 11
    /\ AllIdentical(DigitProjection(input))

(***************************************************************************)
(* C4                                                                      *)
(***************************************************************************)
C4_Applies(s) == Len(s) = 11 /\ IsDigitString(s) /\ ~AllIdentical(s)

C4_ChecksPass(s) ==
    LET d == DigitsOf(s) IN d[9] = CpfC1(d) /\ d[10] = CpfC2(d)

\* C4: on an 11-digit string whose digits are not all identical, validate
\* returns Ok(()) if and only if d9 = c1 and d10 = c2, and
\* Err(InvalidDocument) otherwise; when it is Ok, parse returns the CPF
\* variant wrapping exactly that string.
C4_CpfChecksum ==
    C4_Applies(input) =>
        /\ Validated =>
              IF C4_ChecksPass(input)
              THEN validated = Ok(<<>>)
              ELSE validated = Err("InvalidDocument")
        /\ (Parsed /\ C4_ChecksPass(input)) => parsed = Doc("CPF", input)

C4_Witness ==
    /\ C4_Applies(input)
    /\ validated = Ok(<<>>)
    /\ parsed = Doc("CPF", input)
    /\ DigitsOf(input)[9] = 0
    /\ (SumOver([i \in 0..8 |-> (10 - i) * DigitsOf(input)[i]], 0, 8) * 10) % 11 = 10

(***************************************************************************)
(* C5                                                                      *)
(***************************************************************************)
C5_Applies(s) == Len(s) = 14 /\ IsDigitString(s) /\ ~AllIdentical(s)

C5_ChecksPass(s) ==
    LET d == DigitsOf(s) IN d[12] = CnpjC1(d) /\ d[13] = CnpjC2(d)

\* C5: on a 14-digit string whose digits are not all identical, validate
\* returns Ok(()) if and only if d12 = c1 and d13 = c2 (weights
\* [5,4,3,2,9,8,7,6,5,4,3,2] and [6,5,4,3,2,9,8,7,6,5,4,3,2], remainder
\* below 2 mapped to 0, else 11 minus the remainder), and
\* Err(InvalidDocument) otherwise; when it is Ok, parse returns the CNPJ
\* variant wrapping that string.
C5_CnpjChecksum ==
    C5_Applies(input) =>
        /\ Validated =>
              IF C5_ChecksPass(input)
              THEN validated = Ok(<<>>)
              ELSE validated = Err("InvalidDocument")
        /\ (Parsed /\ C5_ChecksPass(input)) => parsed = Doc("CNPJ", input)

C5_Witness ==
    /\ C5_Applies(input)
    /\ validated = Ok(<<>>)
    /\ parsed = Doc("CNPJ", input)
    /\ DigitsOf(input)[12] = 9

(***************************************************************************)
(* C6                                                                      *)
(***************************************************************************)
\* C6: when parse returns Ok(doc), the text Display renders for doc is the
\* digit-only projection of the input: its digits in their order, every
\* separator removed, nothing added, dropped or reordered.
C6_DisplayIsDigitProjection ==
    rendered # NotRendered => rendered = DigitProjection(input)

C6_Witness ==
    /\ rendered # NotRendered
    /\ MatchesCnpjMask(input)
    /\ ~AllIdentical(rendered)

(***************************************************************************)
(* C7                                                                      *)
(***************************************************************************)
\* C7: a value parse returns in Ok wraps ASCII digits only, 11 of them for
\* CPF and 14 for CNPJ; it is CPF exactly when the input was an 11-digit
\* string or matched the CPF mask, CNPJ exactly when it was a 14-digit
\* string or matched the CNPJ mask.
C7_WrappedStringInvariant ==
    parsed.tag = "Ok" =>
        /\ parsed.variant \in {"CPF", "CNPJ"}
        /\ IsDigitString(parsed.text)
        /\ parsed.variant = "CPF" => Len(parsed.text) = 11
        /\ parsed.variant = "CNPJ" => Len(parsed.text) = 14
        /\ parsed.variant = "CPF" <=>
              ((IsDigitString(input) /\ Len(input) = 11) \/ MatchesCpfMask(input))
        /\ parsed.variant = "CNPJ" <=>
              ((IsDigitString(input) /\ Len(input) = 14) \/ MatchesCnpjMask(input))

C7_Witness ==
    /\ parsed.tag = "Ok"
    /\ parsed.variant = "CPF"
    /\ MatchesCpfMask(input)

(***************************************************************************)
(* C8                                                                      *)
(***************************************************************************)
C8_Normal(r) ==
    \/ r.tag = "Ok"
    \/ r.tag = "Err" /\ r.kind \in ErrorKind

\* C8: on every input, the empty string and strings without a digit
\* included, validate and parse return Ok or one of the three ErrorKind
\* values and never abort: all_equal is only called on a non-empty digit
\* vector, validate_cpf on exactly 11 digits, validate_cnpj on exactly 14.
C8_NeverAborts ==
    /\ Validated => C8_Normal(validated)
    /\ Parsed => C8_Normal(parsed)
    /\ (Validated \/ Parsed) =>
          \A call \in evaluate_calls(input) :
             /\ \A i \in 1..Len(call[2]) : call[2][i] \in 0..9
             /\ call[1] = "all_equal" => Len(call[2]) >= 1
             /\ call[1] = "validate_cpf" => Len(call[2]) = 11
             /\ call[1] = "validate_cnpj" => Len(call[2]) = 14

C8_Witness ==
    /\ validated = Err("InvalidCharacters")
    /\ parsed = Err("InvalidCharacters")
    /\ str_len(input) = 11
    /\ DigitProjection(input) = <<>>

(***************************************************************************)
(* C9                                                                      *)
(***************************************************************************)
\* C9: on an input that matches the CPF mask or the CNPJ mask, validate
\* returns what it returns on the digit-only projection of that input, and
\* parse returns the same document for both.
C9_PunctuationKeepsVerdict ==
    (MatchesCpfMask(input) \/ MatchesCnpjMask(input)) =>
        /\ Validated => validated = validate(DigitProjection(input))
        /\ Parsed => parsed = parse(DigitProjection(input))

C9_Witness ==
    /\ MatchesCpfMask(input)
    /\ AllIdentical(DigitProjection(input))
    /\ validated = Err("InvalidDocument")
    /\ parsed = Err("InvalidDocument")

(***************************************************************************)
(* C10                                                                     *)
(***************************************************************************)
\* C10: on every digit-only input, of any length, validate_input of
\* br_document.rs returns None exactly when validate of document_number.rs
\* returns Ok(()), and otherwise both report the same ErrorKind.
C10_ImplementationsAgree ==
    (IsDigitString(input) /\ Validated /\ legacy # NotChecked) =>
        IF legacy = <<>>
        THEN validated = Ok(<<>>)
        ELSE validated = Err(legacy[1])

====
